---- MODULE Spec2Model ----
(***************************************************************************)
(* A model of app.py: the /calendar.ics and /tomcal.ics request handlers,  *)
(* the table-row extractor, the timetable script-data extractor and the    *)
(* two date/time normalizers.                                              *)
(*                                                                         *)
(* Text is a sequence of one-character strings, so that strip, replace,    *)
(* strptime and fromisoformat act on the characters as the code does.      *)
(* Page text for the timetable is a sequence of lexical tokens over which  *)
(* the anchor search and the JSON parse run.                               *)
(***************************************************************************)
EXTENDS Integers, Sequences, FiniteSets, TLC

(***************************************************************************)
(* Bounds of the model.                                                    *)
(***************************************************************************)
MaxStreets == 2
MaxRows == 3
MaxRecs == 3

(***************************************************************************)
(* Characters and strings.                                                 *)
(***************************************************************************)
Digits == {"0", "1", "2", "3", "4", "5", "6", "7", "8", "9"}

DigitVal(c) ==
  CASE c = "0" -> 0 [] c = "1" -> 1 [] c = "2" -> 2 [] c = "3" -> 3
    [] c = "4" -> 4 [] c = "5" -> 5 [] c = "6" -> 6 [] c = "7" -> 7
    [] c = "8" -> 8 [] c = "9" -> 9

IsDigits(s) == \A i \in 1..Len(s) : s[i] \in Digits

RECURSIVE NumVal(_)
NumVal(s) ==
  IF s = <<>> THEN 0
  ELSE 10 * NumVal(SubSeq(s, 1, Len(s) - 1)) + DigitVal(s[Len(s)])

Whitespace == {" "}

\* str.strip(): leading and trailing whitespace removed
RECURSIVE LStrip(_)
LStrip(s) ==
  IF s # <<>> /\ s[1] \in Whitespace THEN LStrip(Tail(s)) ELSE s

RECURSIVE RStrip(_)
RStrip(s) ==
  IF s # <<>> /\ s[Len(s)] \in Whitespace
  THEN RStrip(SubSeq(s, 1, Len(s) - 1)) ELSE s

Strip(s) == RStrip(LStrip(s))

\* str.endswith("Z")
EndsWithZ(s) == s # <<>> /\ s[Len(s)] = "Z"

\* str.replace("Z", "+00:00"): every occurrence is replaced
RECURSIVE ReplaceZ(_)
ReplaceZ(s) ==
  IF s = <<>> THEN <<>>
  ELSE IF s[1] = "Z" THEN <<"+", "0", "0", ":", "0", "0">> \o ReplaceZ(Tail(s))
  ELSE <<s[1]>> \o ReplaceZ(Tail(s))

(***************************************************************************)
(* Calendar dates.                                                         *)
(***************************************************************************)
IsLeap(y) == (y % 4 = 0) /\ ((y % 100 # 0) \/ (y % 400 = 0))

DaysInMonth(y, m) ==
  IF m = 2 THEN (IF IsLeap(y) THEN 29 ELSE 28)
  ELSE IF m \in {4, 6, 9, 11} THEN 30 ELSE 31

RECURSIVE DaysBeforeMonth(_, _)
DaysBeforeMonth(y, m) ==
  IF m = 1 THEN 0 ELSE DaysBeforeMonth(y, m - 1) + DaysInMonth(y, m - 1)

DaysBeforeYear(y) ==
  LET p == y - 1 IN p * 365 + (p \div 4) - (p \div 100) + (p \div 400)

\* date.toordinal(): 0001-01-01 is day 1
ToOrdinal(y, m, d) == DaysBeforeYear(y) + DaysBeforeMonth(y, m) + d

\* date(y, m, d): the constructor's range check
ValidDate(y, m, d) ==
  /\ y \in 1..9999
  /\ m \in 1..12
  /\ d \in 1..DaysInMonth(y, m)

Err(e) == [ok |-> FALSE, exc |-> e]

(***************************************************************************)
(* datetime.strptime(s, "%d/%m/%Y").date()                                 *)
(*   %d  3[0-1]|[1-2]\d|0[1-9]|[1-9]| [1-9]                                *)
(*   %m  1[0-2]|0[1-9]|[1-9]                                               *)
(*   %Y  \d\d\d\d                                                          *)
(* the whole string must be consumed, and the date must exist.             *)
(***************************************************************************)
NonZero == Digits \ {"0"}

DayField(f) ==
  \/ Len(f) = 2 /\ f[1] = "3" /\ f[2] \in {"0", "1"}
  \/ Len(f) = 2 /\ f[1] \in {"1", "2"} /\ f[2] \in Digits
  \/ Len(f) = 2 /\ f[1] = "0" /\ f[2] \in NonZero
  \/ Len(f) = 1 /\ f[1] \in NonZero
  \/ Len(f) = 2 /\ f[1] = " " /\ f[2] \in NonZero

MonthField(f) ==
  \/ Len(f) = 2 /\ f[1] = "1" /\ f[2] \in {"0", "1", "2"}
  \/ Len(f) = 2 /\ f[1] = "0" /\ f[2] \in NonZero
  \/ Len(f) = 1 /\ f[1] \in NonZero

YearField(f) == Len(f) = 4 /\ IsDigits(f)

\* the (day length, month length) splits under which the format matches a prefix
DMYMatches(s) ==
  { lens \in {2, 1} \X {2, 1} :
      LET dl == lens[1]
          ml == lens[2]
      IN /\ Len(s) >= dl + ml + 6
         /\ DayField(SubSeq(s, 1, dl))
         /\ s[dl + 1] = "/"
         /\ MonthField(SubSeq(s, dl + 2, dl + 1 + ml))
         /\ s[dl + ml + 2] = "/"
         /\ YearField(SubSeq(s, dl + ml + 3, dl + ml + 6)) }

StrptimeDMY(s) ==
  LET ms == DMYMatches(s) IN
  IF ms = {} THEN Err("ValueError")
  ELSE
    LET lens == CHOOSE l \in ms : \A o \in ms : l[1] >= o[1] /\ (l[1] = o[1] => l[2] >= o[2])
        dl == lens[1]
        ml == lens[2]
        d == NumVal(LStrip(SubSeq(s, 1, dl)))
        m == NumVal(SubSeq(s, dl + 2, dl + 1 + ml))
        y == NumVal(SubSeq(s, dl + ml + 3, dl + ml + 6))
    IN IF Len(s) # dl + ml + 6 THEN Err("ValueError")
       ELSE IF ~ValidDate(y, m, d) THEN Err("ValueError")
       ELSE [ok |-> TRUE, v |-> [y |-> y, m |-> m, d |-> d]]

(***************************************************************************)
(* datetime.fromisoformat(s) on YYYY-MM-DD[*HH[:MM[:SS]][(+|-)HH:MM]].     *)
(* Fractional seconds and offsets with seconds are outside the inputs.     *)
(* A datetime is its proleptic ordinal day, the second of that day, and    *)
(* its tzinfo: aware = FALSE is a naive value, off the UTC offset in       *)
(* seconds of an aware one.                                                *)
(***************************************************************************)
Two(s, i) == SubSeq(s, i, i + 1)

IsoDate(s) ==
  /\ Len(s) >= 10
  /\ IsDigits(SubSeq(s, 1, 4)) /\ s[5] = "-"
  /\ IsDigits(Two(s, 6)) /\ s[8] = "-"
  /\ IsDigits(Two(s, 9))
  /\ ValidDate(NumVal(SubSeq(s, 1, 4)), NumVal(Two(s, 6)), NumVal(Two(s, 9)))

\* position of the first "+" or "-" of the time string, 0 when there is none
TzPos(t) ==
  LET ps == { i \in 1..Len(t) : t[i] \in {"+", "-"} } IN
  IF ps = {} THEN 0 ELSE CHOOSE i \in ps : \A j \in ps : i <= j

\* HH[:MM[:SS]]
IsoClock(c) ==
  /\ Len(c) \in {2, 5, 8}
  /\ IsDigits(Two(c, 1)) /\ NumVal(Two(c, 1)) \in 0..23
  /\ Len(c) >= 5 => (c[3] = ":" /\ IsDigits(Two(c, 4)) /\ NumVal(Two(c, 4)) \in 0..59)
  /\ Len(c) >= 8 => (c[6] = ":" /\ IsDigits(Two(c, 7)) /\ NumVal(Two(c, 7)) \in 0..59)

ClockSecs(c) ==
  NumVal(Two(c, 1)) * 3600
  + (IF Len(c) >= 5 THEN NumVal(Two(c, 4)) * 60 ELSE 0)
  + (IF Len(c) >= 8 THEN NumVal(Two(c, 7)) ELSE 0)

\* HH:MM after the sign
IsoOffset(o) ==
  /\ Len(o) = 5
  /\ IsDigits(Two(o, 1)) /\ NumVal(Two(o, 1)) \in 0..23
  /\ o[3] = ":"
  /\ IsDigits(Two(o, 4)) /\ NumVal(Two(o, 4)) \in 0..59

FromIsoFormat(s) ==
  IF ~IsoDate(s) THEN Err("ValueError")
  ELSE
    LET ord == ToOrdinal(NumVal(SubSeq(s, 1, 4)), NumVal(Two(s, 6)), NumVal(Two(s, 9)))
        t == SubSeq(s, 12, Len(s))
        tz == TzPos(t)
        clock == IF tz = 0 THEN t ELSE SubSeq(t, 1, tz - 1)
        offs == IF tz = 0 THEN <<>> ELSE SubSeq(t, tz + 1, Len(t))
        sign == IF tz # 0 /\ t[tz] = "-" THEN -1 ELSE 1
    IN IF Len(s) = 10
       THEN [ok |-> TRUE, v |-> [ord |-> ord, sec |-> 0, aware |-> FALSE, off |-> 0]]
       ELSE IF ~IsoClock(clock) THEN Err("ValueError")
       ELSE IF tz = 0
       THEN [ok |-> TRUE,
             v |-> [ord |-> ord, sec |-> ClockSecs(clock), aware |-> FALSE, off |-> 0]]
       ELSE IF ~IsoOffset(offs) THEN Err("ValueError")
       ELSE [ok |-> TRUE,
             v |-> [ord |-> ord, sec |-> ClockSecs(clock), aware |-> TRUE,
                    off |-> sign * (NumVal(Two(offs, 1)) * 3600 + NumVal(Two(offs, 4)) * 60)]]

SecsPerDay == 24 * 60 * 60

\* dt.replace(tzinfo=timezone.utc): the wall clock is kept
ReplaceTzUtc(dt) == [dt EXCEPT !.aware = TRUE, !.off = 0]

\* a variant of AsTimezoneUtc: the offset is dropped and the wall clock kept
AsTimezoneUtcKeepsWall(dt) == [dt EXCEPT !.aware = TRUE, !.off = 0]

\* dt.astimezone(timezone.utc): the same moment on the UTC wall clock
AsTimezoneUtc(dt) ==
  LET total == dt.sec - dt.off IN
  [ord |-> dt.ord + (total \div SecsPerDay), sec |-> total % SecsPerDay,
   aware |-> TRUE, off |-> 0]

\* _parse_iso_utc
ParseIsoUtc(s0) ==
  LET s1 == Strip(s0)
      s2 == IF EndsWithZ(s1) THEN ReplaceZ(s1) ELSE s1
      r == FromIsoFormat(s2)
  IN IF ~r.ok THEN r
     ELSE IF ~r.v.aware THEN [ok |-> TRUE, v |-> ReplaceTzUtc(r.v)]
     ELSE [ok |-> TRUE, v |-> AsTimezoneUtc(r.v)]

(***************************************************************************)
(* Page text as lexical tokens.  A token is [t, k, v]: t its kind, k the   *)
(* key of a `"key":` token, v the characters of a string literal.          *)
(*   anchor  the text `var timetableData =`                                *)
(*   ws      whitespace between tokens                                     *)
(*   other   any text that is neither JSON nor the anchor                  *)
(***************************************************************************)
Tok(t) == [t |-> t, k |-> "", v |-> <<>>]
KeyTok(k) == [t |-> "key", k |-> k, v |-> <<>>]
StrTok(v) == [t |-> "str", k |-> "", v |-> v]

\* Parsed JSON values: [t, s, l]; an object's l is a sequence of [k, val].
StrV(s) == [t |-> "str", s |-> s, l |-> <<>>]
ListV(l) == [t |-> "list", s |-> <<>>, l |-> l]
ObjV(l) == [t |-> "obj", s |-> <<>>, l |-> l]
AtomV(t) == [t |-> t, s |-> <<>>, l |-> <<>>]
NoneV == AtomV("null")

RECURSIVE SkipWs(_, _)
SkipWs(toks, i) ==
  IF i <= Len(toks) /\ toks[i].t = "ws" THEN SkipWs(toks, i + 1) ELSE i

Fail == [ok |-> FALSE, v |-> NoneV, n |-> 0]

\* json.loads on tokens: a recursive-descent parse of one value from toks[i]
RECURSIVE ParseValue(_, _)
RECURSIVE ParseElems(_, _, _)
RECURSIVE ParseMembers(_, _, _)
ParseValue(toks, i0) ==
  LET i == SkipWs(toks, i0) IN
  IF i > Len(toks) THEN Fail
  ELSE
    LET tk == toks[i] IN
    IF tk.t = "str" THEN [ok |-> TRUE, v |-> StrV(tk.v), n |-> i + 1]
    ELSE IF tk.t \in {"null", "true", "false"} THEN [ok |-> TRUE, v |-> AtomV(tk.t), n |-> i + 1]
    ELSE IF tk.t = "["
    THEN LET j == SkipWs(toks, i + 1) IN
         IF j <= Len(toks) /\ toks[j].t = "]"
         THEN [ok |-> TRUE, v |-> ListV(<<>>), n |-> j + 1]
         ELSE ParseElems(toks, j, <<>>)
    ELSE IF tk.t = "{"
    THEN LET j == SkipWs(toks, i + 1) IN
         IF j <= Len(toks) /\ toks[j].t = "}"
         THEN [ok |-> TRUE, v |-> ObjV(<<>>), n |-> j + 1]
         ELSE ParseMembers(toks, j, <<>>)
    ELSE Fail

ParseElems(toks, i, acc) ==
  LET r == ParseValue(toks, i) IN
  IF ~r.ok THEN Fail
  ELSE
    LET j == SkipWs(toks, r.n) IN
    IF j > Len(toks) THEN Fail
    ELSE IF toks[j].t = "," THEN ParseElems(toks, j + 1, Append(acc, r.v))
    ELSE IF toks[j].t = "]" THEN [ok |-> TRUE, v |-> ListV(Append(acc, r.v)), n |-> j + 1]
    ELSE Fail

ParseMembers(toks, i0, acc) ==
  LET i == SkipWs(toks, i0) IN
  IF i > Len(toks) \/ toks[i].t # "key" THEN Fail
  ELSE
    LET r == ParseValue(toks, i + 1) IN
    IF ~r.ok THEN Fail
    ELSE
      LET j == SkipWs(toks, r.n)
          acc2 == Append(acc, [k |-> toks[i].k, val |-> r.v])
      IN IF j > Len(toks) THEN Fail
         ELSE IF toks[j].t = "," THEN ParseMembers(toks, j + 1, acc2)
         ELSE IF toks[j].t = "}" THEN [ok |-> TRUE, v |-> ObjV(acc2), n |-> j + 1]
         ELSE Fail

JsonLoads(toks) ==
  LET r == ParseValue(toks, 1) IN
  IF r.ok /\ SkipWs(toks, r.n) = Len(toks) + 1
  THEN [ok |-> TRUE, v |-> r.v]
  ELSE Err("JSONDecodeError")

\* dict: `k in d`, d[k] (a repeated key keeps its last value), d.get(k)
HasKey(obj, k) == \E i \in 1..Len(obj.l) : obj.l[i].k = k

Item(obj, k) ==
  LET i == CHOOSE i \in 1..Len(obj.l) :
             obj.l[i].k = k /\ \A j \in 1..Len(obj.l) : obj.l[j].k = k => j <= i
  IN obj.l[i].val

Get(obj, k) == IF HasKey(obj, k) THEN Item(obj, k) ELSE NoneV

\* Python truthiness of a parsed value
Truthy(v) ==
  CASE v.t = "str" -> v.s # <<>>
    [] v.t \in {"list", "obj"} -> v.l # <<>>
    [] v.t = "true" -> TRUE
    [] OTHER -> FALSE

(***************************************************************************)
(* re.search(r"var\s+timetableData\s*=\s*(\{.*?\});", js, re.DOTALL)       *)
(* The match starts at the leftmost anchor that is followed, after         *)
(* optional whitespace, by "{"; it ends at the first "}" that is directly  *)
(* followed by ";".  A string literal whose characters hold "};" ends the  *)
(* match inside the literal, and the group then ends in a cut literal.     *)
(***************************************************************************)
HoldsBraceSemi(v) == \E i \in 1..(Len(v) - 1) : v[i] = "}" /\ v[i + 1] = ";"

EndsGroup(js, k) ==
  \/ js[k].t = "}" /\ k < Len(js) /\ js[k + 1].t = ";"
  \/ js[k].t = "str" /\ HoldsBraceSemi(js[k].v)

Starts(js) ==
  { i \in 1..Len(js) :
      /\ js[i].t = "anchor"
      /\ LET j == SkipWs(js, i + 1) IN
           /\ j <= Len(js) /\ js[j].t = "{"
           /\ \E k \in (j + 1)..Len(js) : EndsGroup(js, k) }

Min(S) == CHOOSE x \in S : \A y \in S : x <= y

\* [found, group]: group is match.group(1)
ReSearch(js) ==
  IF Starts(js) = {} THEN [found |-> FALSE, group |-> <<>>]
  ELSE
    LET i == Min(Starts(js))
        j == SkipWs(js, i + 1)
        k == Min({ e \in (j + 1)..Len(js) : EndsGroup(js, e) })
    IN [found |-> TRUE,
        group |-> IF js[k].t = "}" THEN SubSeq(js, j, k)
                  ELSE Append(SubSeq(js, j, k - 1), Tok("other"))]

(***************************************************************************)
(* Inputs: what a client can send and what the upstream servers can answer.*)
(***************************************************************************)
DigitChar(n) ==
  CASE n = 0 -> "0" [] n = 1 -> "1" [] n = 2 -> "2" [] n = 3 -> "3"
    [] n = 4 -> "4" [] n = 5 -> "5" [] n = 6 -> "6" [] n = 7 -> "7"
    [] n = 8 -> "8" [] n = 9 -> "9"

Fmt2(n) == <<DigitChar(n \div 10), DigitChar(n % 10)>>
Fmt4(n) == Fmt2(n \div 100) \o Fmt2(n % 100)

\* the text YYYY-MM-DDTHH:MM:SS
IsoText(y, m, d, hh, mm, ss) ==
  Fmt4(y) \o <<"-">> \o Fmt2(m) \o <<"-">> \o Fmt2(d) \o <<"T">>
  \o Fmt2(hh) \o <<":">> \o Fmt2(mm) \o <<":">> \o Fmt2(ss)

\* the text (+|-)HH:MM
OffsetText(sign, hh, mm) ==
  <<IF sign < 0 THEN "-" ELSE "+">> \o Fmt2(hh) \o <<":">> \o Fmt2(mm)

\* sequences over S of length at most n
RECURSIVE SeqsUpTo(_, _)
SeqsUpTo(S, n) ==
  IF n = 0 THEN {<<>>}
  ELSE LET P == SeqsUpTo(S, n - 1) IN
       P \cup { Append(q, x) : q \in { r \in P : Len(r) = n - 1 }, x \in S }

\* ---- /calendar.ics: request.args.getlist("street")
StreetNames == {"Kings Road", "Queens Gate"}
StreetLists == SeqsUpTo(StreetNames, MaxStreets)

\* ---- cell texts of the suspension table
TxtRoad == <<"R", "d">>
TxtLane == <<" ", "L", "n">>
TxtHead == <<"S", "t", "r", "e", "e", "t">>
TxtPlace == <<"o", "/", "s", " ", "5">>
TxtBay == <<"B", "a", "y">>
TxtWorks == <<" ", "W", "o", "r", "k", "s", " ">>
TxtExtra == <<"x">>
DateA == <<"0", "1", "/", "0", "2", "/", "2", "0", "2", "4">>
DateB == <<" ", "2", "9", "/", "2", "/", "2", "0", "2", "4", " ">>
DateNoSuchDay == <<"3", "0", "/", "0", "2", "/", "2", "0", "2", "4">>
DateIsoStyle == <<"2", "0", "2", "4", "-", "0", "2", "-", "0", "1">>

\* a row is the sequence of the get_text() inputs of its td cells
Cells(street, from, to) == <<street, TxtPlace, TxtBay, TxtWorks, from, to, TxtExtra>>

RowValid == Cells(TxtRoad, DateA, DateB)
RowLong == Append(Cells(TxtLane, DateB, DateA), TxtExtra)
RowShort == SubSeq(Cells(TxtRoad, DateA, DateB), 1, 6)
RowBadFrom == Cells(TxtRoad, DateNoSuchDay, DateA)
RowBadTo == Cells(TxtRoad, DateA, DateIsoStyle)
RowNoCells == <<>>
RowHeader == Cells(TxtHead, DateA, DateA)

DataRows == {RowValid, RowLong, RowShort, RowBadFrom, RowBadTo, RowNoCells}

\* a table is its class attribute and its tr rows, the first one the header
Table(classes, trs) == [classes |-> classes, trs |-> trs]

\* pages whose marked table holds a header and the rows rs
TablePages(rowSeqs) ==
  { <<Table({"tableborder"}, <<RowHeader>> \o rs)>> : rs \in rowSeqs }
  \cup { <<Table({"menu"}, <<RowHeader, RowValid>>),
           Table({"tableborder", "wide"}, <<RowHeader>> \o rs)>> : rs \in rowSeqs }

\* the pages of the multi-street requests: no table, no marked table, a marked
\* table without rows, marked tables of at most one data row
Documents ==
  {<<>>,
   <<Table({"menu"}, <<RowHeader, RowValid>>)>>,
   <<Table({"tableborder"}, <<>>)>>}
  \cup TablePages(SeqsUpTo(DataRows, 1))

\* the pages of the single-street requests: marked tables of up to MaxRows data rows
RowDocuments == TablePages(SeqsUpTo(DataRows, MaxRows))

\* what requests.get / session.post / session.get can produce: a response
\* (status, text; doc is the tree html.parser builds from an HTML text, toks
\* the tokens of a script/JSON text) or a raised requests.ConnectionError
NoReply == [kind |-> "none", status |-> 0, text |-> "", doc |-> <<>>, toks |-> <<>>]
ConnError == [kind |-> "conn_error", status |-> 0, text |-> "", doc |-> <<>>, toks |-> <<>>]
HttpReply(status, text) ==
  [kind |-> "response", status |-> status, text |-> text, doc |-> <<>>, toks |-> <<>>]
HtmlReply(doc) ==
  [kind |-> "response", status |-> 200, text |-> "<html>", doc |-> doc, toks |-> <<>>]
ScriptReply(toks) ==
  [kind |-> "response", status |-> 200, text |-> "<script>", doc |-> <<>>, toks |-> toks]

ErrorReplies == {HttpReply(404, "Not Found"), HttpReply(500, "Server Error")}

SuspensionReplies == {ConnError} \cup ErrorReplies \cup { HtmlReply(d) : d \in Documents }

TableReplies == { HtmlReply(d) : d \in RowDocuments }

\* ---- /tomcal.ics: request.args.get("l"), request.args.get("p")
Absent == [present |-> FALSE, val |-> ""]
Given(v) == [present |-> TRUE, val |-> v]
ArgValues == {Absent, Given(""), Given("tom")}

\* the text of a JSON value (what the upstream server's encoder writes)
RECURSIVE Dumps(_)
RECURSIVE DumpElems(_)
RECURSIVE DumpMembers(_)
Dumps(v) ==
  CASE v.t = "str" -> <<StrTok(v.s)>>
    [] v.t = "list" -> <<Tok("[")>> \o DumpElems(v.l) \o <<Tok("]")>>
    [] v.t = "obj" -> <<Tok("{")>> \o DumpMembers(v.l) \o <<Tok("}")>>
    [] OTHER -> <<Tok(v.t)>>

DumpElems(l) ==
  IF l = <<>> THEN <<>>
  ELSE IF Len(l) = 1 THEN Dumps(l[1])
  ELSE Dumps(l[1]) \o <<Tok(","), Tok("ws")>> \o DumpElems(Tail(l))

DumpMembers(l) ==
  IF l = <<>> THEN <<>>
  ELSE IF Len(l) = 1 THEN <<KeyTok(l[1].k), Tok("ws")>> \o Dumps(l[1].val)
  ELSE <<KeyTok(l[1].k), Tok("ws")>> \o Dumps(l[1].val) \o <<Tok(",")>> \o DumpMembers(Tail(l))

KV(k, v) == [k |-> k, val |-> v]

TxtMaths == <<"M", "a", "t", "h", "s">>
TxtRoom == <<"R", "1">>
TxtStaff == <<"M", "r", " ", "T">>
TxtLesson == <<"L", "e", "s", "s", "o", "n">>
TxtSoon == <<"s", "o", "o", "n">>
TxtBraces == <<"a", "}", ";", "b">>

EntryFull ==
  ObjV(<<KV("name", StrV(TxtMaths)),
         KV("startTime", StrV(IsoText(2024, 3, 1, 9, 0, 0) \o <<"Z">>)),
         KV("endTime", StrV(IsoText(2024, 3, 1, 10, 0, 0) \o <<"Z">>)),
         KV("location", StrV(TxtRoom)),
         KV("staffName", StrV(TxtStaff))>>)

EntryBare ==
  ObjV(<<KV("name", StrV(<<>>)),
         KV("startTime", StrV(IsoText(2024, 2, 29, 23, 30, 0) \o OffsetText(-1, 5, 0))),
         KV("endTime", StrV(<<" ">> \o IsoText(2024, 3, 1, 0, 30, 0) \o OffsetText(-1, 5, 0)))>>)

EntryNoStart ==
  ObjV(<<KV("name", StrV(TxtMaths)),
         KV("endTime", StrV(IsoText(2024, 3, 1, 10, 0, 0) \o <<"Z">>))>>)

EntryNoEnd ==
  ObjV(<<KV("startTime", StrV(IsoText(2024, 3, 1, 9, 0, 0)))>>)

EntryBadTime ==
  ObjV(<<KV("startTime", StrV(TxtSoon)),
         KV("endTime", StrV(IsoText(2024, 3, 1, 10, 0, 0)))>>)

EntryBraces ==
  ObjV(<<KV("name", StrV(TxtBraces)),
         KV("startTime", StrV(IsoText(2024, 3, 1, 9, 0, 0))),
         KV("endTime", StrV(IsoText(2024, 3, 1, 10, 0, 0)))>>)

Entries == {EntryFull, EntryBare, EntryNoStart, EntryNoEnd, EntryBadTime}

TimetableData(l) == ObjV(<<KV("timetables", ListV(l))>>)

\* a page holding `var timetableData = <data>;`
Page(data) ==
  <<Tok("other"), Tok("anchor"), Tok("ws")>> \o Dumps(data) \o <<Tok(";"), Tok("ws"), Tok("other")>>

PageNoAnchor == <<Tok("other")>> \o Dumps(TimetableData(<<EntryFull>>)) \o <<Tok(";")>>
PageSpacedSemi ==
  <<Tok("anchor")>> \o Dumps(TimetableData(<<EntryFull>>)) \o <<Tok("ws"), Tok(";")>>
PageUnclosedList ==
  <<Tok("anchor"), Tok("{"), KeyTok("timetables"), Tok("[")>> \o Dumps(EntryFull)
  \o <<Tok("}"), Tok(";")>>
PageTrailingComma ==
  <<Tok("anchor"), Tok("{"), KeyTok("timetables"), Tok("[")>> \o Dumps(EntryFull)
  \o <<Tok(","), Tok("]"), Tok("}"), Tok(";")>>
PageNoTimetables == Page(ObjV(<<KV("user", StrV(TxtStaff))>>))
PageNullTimetables == Page(ObjV(<<KV("timetables", NoneV)>>))
PageTextEntry == Page(TimetableData(<<EntryFull, StrV(TxtSoon)>>))
PageBraces == Page(TimetableData(<<EntryBraces>>))
PageTwoAnchors == <<Tok("anchor"), Tok("null"), Tok(";"), Tok("ws")>> \o Page(TimetableData(<<EntryBare>>))

Pages ==
  { Page(TimetableData(l)) : l \in SeqsUpTo(Entries, MaxRecs) }
  \cup {PageNoAnchor, PageSpacedSemi, PageUnclosedList, PageTrailingComma, PageNoTimetables,
        PageNullTimetables, PageTextEntry, PageBraces, PageTwoAnchors}

\* answers of POST /api/auth
LoginBody(v) == Dumps(ObjV(<<KV("success", v)>>))

LoginReplies ==
  {ConnError, HttpReply(401, "Unauthorized"),
   ScriptReply(LoginBody(AtomV("true"))),
   ScriptReply(LoginBody(AtomV("false"))),
   ScriptReply(Dumps(ObjV(<<>>))),
   ScriptReply(Dumps(ListV(<<>>))),
   ScriptReply(<<Tok("other")>>)}

\* answers of GET /showme/timetable
TimetableReplies == {ConnError, HttpReply(500, "Server Error")} \cup { ScriptReply(p) : p \in Pages }

(***************************************************************************)
(* State.                                                                  *)
(***************************************************************************)
VARIABLES
  pc,          \* where the handler of the request is
  endpoint,    \* "/calendar.ics" or "/tomcal.ics"
  streets,     \* request.args.getlist("street")
  login,       \* request.args.get("l")
  password,    \* request.args.get("p")
  calls,       \* the outbound calls made for the request, in order
  upstream,    \* the outcome of the last outbound call
  resp,        \* what the handler produced
  si,          \* serve_calendar: index of the street being fetched
  rows,        \* parse_html_to_events_from_url: table.find_all("tr")[1:]
  ri,          \* parse_html_to_events_from_url: index of the row being read
  events,      \* parse_html_to_events_from_url: events
  all_events,  \* serve_calendar: all_events
  html,        \* serve_tomcal: html, the text fetch_timetable returned
  entries,     \* parse_timetable: data.get("timetables", [])
  ti,          \* parse_timetable: index of the entry being read
  cal,         \* parse_timetable: cal.events
  isoIn,       \* a timestamp to normalize
  isoOut       \* its normalizations

vars ==
  <<pc, endpoint, streets, login, password, calls, upstream, resp, si, rows, ri, events,
    all_events, html, entries, ti, cal, isoIn, isoOut>>

reqVars == <<endpoint, streets, login, password>>
calVars == <<si, rows, ri, events, all_events>>
tomVars == <<html, entries, ti, cal>>
isoVars == <<isoIn, isoOut>>

(***************************************************************************)
(* Responses.  Response(text, status=...) carries a text; a calendar       *)
(* response carries the serialized document, kept here as the sequence of  *)
(* its events; an exception that leaves the view function is "uncaught".   *)
(***************************************************************************)
NoResp ==
  [kind |-> "none", status |-> 0, mimetype |-> "", text |-> <<>>, ics |-> <<>>,
   filename |-> "", exc |-> ""]

TextResponse(text, status) ==
  [kind |-> "response", status |-> status, mimetype |-> "text/html", text |-> text,
   ics |-> <<>>, filename |-> "", exc |-> ""]

\* Calendar.serialize() and the text/calendar response
CalendarResponse(evs, filename) ==
  [kind |-> "response", status |-> 200, mimetype |-> "text/calendar", text |-> <<>>,
   ics |-> evs, filename |-> filename, exc |-> ""]

Uncaught(exc) ==
  [kind |-> "uncaught", status |-> 0, mimetype |-> "", text |-> <<>>, ics |-> <<>>,
   filename |-> "", exc |-> exc]

StatusText(n) ==
  CASE n = 200 -> "200" [] n = 401 -> "401" [] n = 404 -> "404" [] n = 500 -> "500"

\* a variant of Ok: only server errors count as failures
OkBelow500(reply) == reply.status < 500

\* response.ok; raise_for_status() raises exactly when it is false
Ok(reply) == reply.status < 400

Call(method, target, arg) == [method |-> method, target |-> target, arg |-> arg]

(***************************************************************************)
(* parse_html_to_events_from_url                                           *)
(***************************************************************************)
\* cell.get_text(strip=True)
GetText(cell) == Strip(cell)

\* a variant of FindTable: the first table of the page, whatever its class
FindTableAnyClass(doc) == IF doc = <<>> THEN 0 ELSE 1

\* soup.find("table", class_="tableborder"): index of the first such table, 0 if none
FindTable(doc) ==
  LET hits == { i \in 1..Len(doc) : "tableborder" \in doc[i].classes } IN
  IF hits = {} THEN 0 ELSE Min(hits)

\* table.find_all("tr")[1:]
SkipHeader(trs) == IF trs = <<>> THEN <<>> ELSE Tail(trs)

\* a variant of RowEvents: rows of 6 cells are read too
RowEventsFrom6(cells) ==
  IF Len(cells) < 6 THEN <<>>
  ELSE
    LET start == StrptimeDMY(GetText(cells[5]))
        end == StrptimeDMY(GetText(cells[6]))
    IN IF ~start.ok \/ ~end.ok THEN <<>>
       ELSE << [name |-> GetText(cells[3]) \o <<" ", "-", " ">> \o GetText(cells[1]),
                begin |-> start.v, end |-> end.v, all_day |-> TRUE,
                description |-> GetText(cells[4]), location |-> GetText(cells[2])] >>

\* the body of the row loop: the events the row adds (none, or one)
RowEvents(cells) ==
  IF Len(cells) < 7 THEN <<>>
  ELSE
    LET street_name == GetText(cells[1])
        location == GetText(cells[2])
        suspension_type == GetText(cells[3])
        suspension_reason == GetText(cells[4])
        start == StrptimeDMY(GetText(cells[5]))
        end == StrptimeDMY(GetText(cells[6]))
    IN IF ~start.ok \/ ~end.ok THEN <<>>
       ELSE << [name |-> suspension_type \o <<" ", "-", " ">> \o street_name,
                begin |-> start.v, end |-> end.v, all_day |-> TRUE,
                description |-> suspension_reason, location |-> location] >>

(***************************************************************************)
(* serve_calendar                                                          *)
(***************************************************************************)
CalendarRequest(sl) ==
  /\ pc = "idle"
  /\ endpoint' = "/calendar.ics"
  /\ streets' = sl
  /\ IF sl = <<>>
     THEN /\ resp' = TextResponse(<<"Missing 'street' parameter(s)">>, 400)
          /\ pc' = "done"
          /\ si' = si
     ELSE /\ resp' = resp
          /\ pc' = "fetch"
          /\ si' = 1
  /\ UNCHANGED <<login, password, calls, upstream, rows, ri, events, all_events>>
  /\ UNCHANGED <<tomVars, isoVars>>

\* all_events.extend(evs), then the next street or, after the last, the calendar
StreetDone(evs) ==
  /\ all_events' = all_events \o evs
  /\ IF si = Len(streets)
     THEN /\ resp' = CalendarResponse(all_events', "calendar.ics")
          /\ pc' = "done"
          /\ si' = si
     ELSE /\ resp' = resp
          /\ pc' = "fetch"
          /\ si' = si + 1

\* requests.get(url) for streets[si], up to the first row of the table
CalFetch(reply) ==
  /\ pc = "fetch"
  /\ calls' = Append(calls, Call("GET", "suspensionresults.asp", streets[si]))
  /\ upstream' = reply
  /\ IF reply.kind = "conn_error"
     THEN /\ resp' = Uncaught("ConnectionError")
          /\ pc' = "done"
          /\ UNCHANGED calVars
     ELSE IF ~Ok(reply)
     THEN /\ resp' = TextResponse(<<"HTTP Error ", StatusText(reply.status), ": ", reply.text>>, 500)
          /\ pc' = "done"
          /\ UNCHANGED calVars
     ELSE LET t == FindTable(reply.doc)
              rs == IF t = 0 THEN <<>> ELSE SkipHeader(reply.doc[t].trs)
          IN /\ rows' = rs
             /\ ri' = 1
             /\ events' = <<>>
             /\ IF rs = <<>>
                THEN StreetDone(<<>>)
                ELSE /\ pc' = "rows"
                     /\ UNCHANGED <<resp, si, all_events>>
  /\ UNCHANGED <<reqVars, tomVars, isoVars>>

\* one pass of `for row in rows`
CalRow ==
  /\ pc = "rows"
  /\ events' = events \o RowEvents(rows[ri])
  /\ ri' = ri + 1
  /\ IF ri = Len(rows)
     THEN StreetDone(events')
     ELSE UNCHANGED <<pc, resp, si, all_events>>
  /\ UNCHANGED <<reqVars, calls, upstream, rows, tomVars, isoVars>>

(***************************************************************************)
(* parse_timetable                                                         *)
(***************************************************************************)
\* _parse_iso_utc(entry[k]): KeyError without the key, AttributeError when the
\* value has no strip(), ValueError when fromisoformat rejects the text
EntryTime(entry, k) ==
  IF ~HasKey(entry, k) THEN Err("KeyError")
  ELSE IF Item(entry, k).t # "str" THEN Err("AttributeError")
  ELSE ParseIsoUtc(Item(entry, k).s)

\* the body of the entry loop up to cal.events.add(ev): the event, or the exception
MakeEvent(entry) ==
  IF entry.t # "obj" THEN Err("AttributeError")
  ELSE
    LET name == IF Truthy(Get(entry, "name")) THEN Get(entry, "name") ELSE StrV(TxtLesson)
        begin == EntryTime(entry, "startTime")
        end == EntryTime(entry, "endTime")
        staff == Get(entry, "staffName")
    IN IF ~begin.ok THEN begin
       ELSE IF ~end.ok THEN end
       ELSE IF Truthy(staff) /\ staff.t # "str" THEN Err("TypeError")
       ELSE [ok |-> TRUE,
             v |-> [name |-> name, begin |-> begin.v, end |-> end.v,
                    location |-> Get(entry, "location"),
                    description |-> IF Truthy(staff) THEN staff ELSE NoneV]]

\* a variant of Timetables: the first element is taken for a header and skipped
TimetablesSkipFirst(data) ==
  LET v == IF HasKey(data, "timetables") THEN Item(data, "timetables") ELSE ListV(<<>>) IN
  IF v.t = "list" THEN [ok |-> TRUE, v |-> IF v.l = <<>> THEN <<>> ELSE Tail(v.l)]
  ELSE Err("TypeError")

\* what `for entry in data.get("timetables", [])` iterates over: the elements of
\* a list, the characters of a string, the keys of an object; TypeError otherwise
Timetables(data) ==
  LET v == IF HasKey(data, "timetables") THEN Item(data, "timetables") ELSE ListV(<<>>) IN
  CASE v.t = "list" -> [ok |-> TRUE, v |-> v.l]
    [] v.t = "str" -> [ok |-> TRUE, v |-> [i \in 1..Len(v.s) |-> StrV(<<v.s[i]>>)]]
    [] v.t = "obj" -> [ok |-> TRUE, v |-> [i \in 1..Len(v.l) |-> StrV(<<>>)]]
    [] OTHER -> Err("TypeError")

\* a variant of FindEntries: a text without the block reads as an empty timetable
FindEntriesOrNone(js) ==
  LET match == ReSearch(js) IN
  IF ~match.found THEN [ok |-> TRUE, v |-> <<>>]
  ELSE
    LET data == JsonLoads(match.group) IN
    IF ~data.ok THEN [ok |-> TRUE, v |-> <<>>] ELSE Timetables(data.v)

\* parse_timetable up to the loop: the entries to read, or the exception
FindEntries(js) ==
  LET match == ReSearch(js) IN
  IF ~match.found THEN Err("ValueError")
  ELSE
    LET data == JsonLoads(match.group) IN
    IF ~data.ok THEN data ELSE Timetables(data.v)

(***************************************************************************)
(* fetch_timetable                                                         *)
(***************************************************************************)
\* a variant of LoginFailure: the success flag of the answer is not looked at
LoginFailureNoFlag(reply) ==
  IF reply.kind = "conn_error" THEN "ConnectionError"
  ELSE IF reply.status >= 400 THEN "HTTPError"
  ELSE IF ~JsonLoads(reply.toks).ok THEN "JSONDecodeError"
  ELSE ""

\* the exception the login answer raises, "" when the login is accepted
LoginFailure(reply) ==
  IF reply.kind = "conn_error" THEN "ConnectionError"
  ELSE IF ~Ok(reply) THEN "HTTPError"
  ELSE
    LET j == JsonLoads(reply.toks) IN
    IF ~j.ok THEN "JSONDecodeError"
    ELSE IF j.v.t # "obj" THEN "AttributeError"
    ELSE IF ~(HasKey(j.v, "success") /\ Truthy(Item(j.v, "success"))) THEN "ValueError"
    ELSE ""

\* the exception the timetable answer raises, "" when the text is returned
FetchFailure(reply) ==
  IF reply.kind = "conn_error" THEN "ConnectionError"
  ELSE IF ~Ok(reply) THEN "HTTPError"
  ELSE ""

(***************************************************************************)
(* serve_tomcal                                                            *)
(***************************************************************************)
\* a variant of Falsy: only the empty string counts, an absent value does not
FalsyOnlyEmpty(a) == a.present /\ a.val = ""

\* `not login`
Falsy(a) == ~a.present \/ a.val = ""

TomcalRequest(l, p) ==
  /\ pc = "idle"
  /\ endpoint' = "/tomcal.ics"
  /\ login' = l
  /\ password' = p
  /\ IF Falsy(l) \/ Falsy(p)
     THEN /\ resp' = TextResponse(<<"Missing login or password">>, 400)
          /\ pc' = "done"
     ELSE /\ resp' = resp
          /\ pc' = "login"
  /\ UNCHANGED <<streets, calls, upstream, calVars, tomVars, isoVars>>

\* session.post(".../api/auth") and the checks of its answer
TomLogin(reply) ==
  /\ pc = "login"
  /\ calls' = Append(calls, Call("POST", "/api/auth", login.val))
  /\ upstream' = reply
  /\ IF LoginFailure(reply) # ""
     THEN /\ resp' = Uncaught(LoginFailure(reply))
          /\ pc' = "done"
     ELSE /\ resp' = resp
          /\ pc' = "get"
  /\ UNCHANGED <<reqVars, calVars, tomVars, isoVars>>

\* session.get(".../showme/timetable"), then parse_timetable up to its loop
TomGet(reply) ==
  /\ pc = "get"
  /\ calls' = Append(calls, Call("GET", "/showme/timetable", ""))
  /\ upstream' = reply
  /\ IF FetchFailure(reply) # ""
     THEN /\ resp' = Uncaught(FetchFailure(reply))
          /\ pc' = "done"
          /\ UNCHANGED tomVars
     ELSE LET es == FindEntries(reply.toks) IN
          /\ html' = reply.toks
          /\ cal' = <<>>
          /\ ti' = 1
          /\ IF ~es.ok
             THEN /\ resp' = Uncaught(es.exc)
                  /\ pc' = "done"
                  /\ entries' = <<>>
             ELSE /\ entries' = es.v
                  /\ IF es.v = <<>>
                     THEN /\ resp' = CalendarResponse(<<>>, "tomcal.ics")
                          /\ pc' = "done"
                     ELSE /\ resp' = resp
                          /\ pc' = "entries"
  /\ UNCHANGED <<reqVars, calVars, isoVars>>

\* a variant of TomEntry: a record that raises is skipped
TomEntrySkipping ==
  /\ pc = "entries"
  /\ LET ev == MakeEvent(entries[ti]) IN
     /\ cal' = IF ev.ok THEN Append(cal, ev.v) ELSE cal
     /\ ti' = ti + 1
     /\ IF ti = Len(entries)
        THEN /\ resp' = CalendarResponse(cal', "tomcal.ics")
             /\ pc' = "done"
        ELSE UNCHANGED <<pc, resp>>
  /\ UNCHANGED <<reqVars, calls, upstream, calVars, html, entries, isoVars>>

\* one pass of `for entry in data.get("timetables", [])`
TomEntry ==
  /\ pc = "entries"
  /\ LET ev == MakeEvent(entries[ti]) IN
     IF ~ev.ok
     THEN /\ resp' = Uncaught(ev.exc)
          /\ pc' = "done"
          /\ UNCHANGED <<ti, cal>>
     ELSE /\ cal' = Append(cal, ev.v)
          /\ ti' = ti + 1
          /\ IF ti = Len(entries)
             THEN /\ resp' = CalendarResponse(cal', "tomcal.ics")
                  /\ pc' = "done"
             ELSE UNCHANGED <<pc, resp>>
  /\ UNCHANGED <<reqVars, calls, upstream, calVars, html, entries, isoVars>>

(***************************************************************************)
(* The requests.                                                           *)
(***************************************************************************)
NoTimestamp == [y |-> 0, m |-> 0, d |-> 0, hh |-> 0, mm |-> 0, sign |-> 1, oh |-> 0, om |-> 0]
NoInstants == [z |-> Err(""), zero |-> Err(""), naive |-> Err(""), shifted |-> Err("")]

Init ==
  /\ pc = "idle"
  /\ endpoint = ""
  /\ streets = <<>>
  /\ login = Absent
  /\ password = Absent
  /\ calls = <<>>
  /\ upstream = NoReply
  /\ resp = NoResp
  /\ si = 0
  /\ rows = <<>>
  /\ ri = 0
  /\ events = <<>>
  /\ all_events = <<>>
  /\ html = <<>>
  /\ entries = <<>>
  /\ ti = 0
  /\ cal = <<>>
  /\ isoIn = NoTimestamp
  /\ isoOut = NoInstants

Next ==
  \/ \E sl \in StreetLists : CalendarRequest(sl)
  \/ \E reply \in SuspensionReplies : CalFetch(reply)
  \/ CalRow
  \/ \E l \in ArgValues, p \in ArgValues : TomcalRequest(l, p)
  \/ \E reply \in LoginReplies : TomLogin(reply)
  \/ \E reply \in TimetableReplies : TomGet(reply)
  \/ TomEntry

Spec == Init /\ [][Next]_vars

(***************************************************************************)
(* parse_html_to_events_from_url on its own: a request for one street,     *)
(* answered with a page whose table holds up to MaxRows data rows.         *)
(***************************************************************************)
NextRows ==
  \/ \E s \in StreetNames : CalendarRequest(<<s>>)
  \/ \E reply \in TableReplies : CalFetch(reply)
  \/ CalRow

SpecRows == Init /\ [][NextRows]_vars

(***************************************************************************)
(* _parse_iso_utc on its own: a wall-clock time and an offset are written  *)
(* out in the four ISO-8601 forms and each text is normalized.             *)
(***************************************************************************)
CivilDates == {<<2023, 12, 31>>, <<2024, 1, 1>>, <<2024, 2, 29>>, <<2024, 3, 1>>}
Hours == {0, 9, 23}
Minutes == {0, 30}
Offsets == {<<1, 0, 0>>, <<1, 1, 0>>, <<1, 5, 30>>, <<-1, 5, 0>>, <<-1, 0, 30>>}

Timestamps ==
  { [y |-> c[1], m |-> c[2], d |-> c[3], hh |-> h, mm |-> n,
     sign |-> o[1], oh |-> o[2], om |-> o[3]] :
      c \in CivilDates, h \in Hours, n \in Minutes, o \in Offsets }

WallText(t) == IsoText(t.y, t.m, t.d, t.hh, t.mm, 0)

InitIso ==
  /\ pc = "iso"
  /\ endpoint = ""
  /\ streets = <<>>
  /\ login = Absent
  /\ password = Absent
  /\ calls = <<>>
  /\ upstream = NoReply
  /\ resp = NoResp
  /\ si = 0
  /\ rows = <<>>
  /\ ri = 0
  /\ events = <<>>
  /\ all_events = <<>>
  /\ html = <<>>
  /\ entries = <<>>
  /\ ti = 0
  /\ cal = <<>>
  /\ isoIn \in Timestamps
  /\ isoOut = NoInstants

Normalize ==
  /\ pc = "iso"
  /\ pc' = "iso_done"
  /\ isoOut' = [z |-> ParseIsoUtc(WallText(isoIn) \o <<"Z">>),
                zero |-> ParseIsoUtc(WallText(isoIn) \o OffsetText(1, 0, 0)),
                naive |-> ParseIsoUtc(WallText(isoIn)),
                shifted |-> ParseIsoUtc(WallText(isoIn)
                                        \o OffsetText(isoIn.sign, isoIn.oh, isoIn.om))]
  /\ UNCHANGED <<reqVars, calls, upstream, resp, calVars, tomVars, isoIn>>

NextIso == Normalize

SpecIso == InitIso /\ [][NextIso]_vars

(***************************************************************************)
(* Properties.                                                             *)
(***************************************************************************)
Done == pc = "done"
IsCalendar == endpoint = "/calendar.ics"
IsTomcal == endpoint = "/tomcal.ics"
ErrorResponse == resp.kind = "response" /\ resp.status >= 400 /\ resp.text # <<>>
CalendarReturned == resp.kind = "response" /\ resp.mimetype = "text/calendar"
HttpFailed(reply) == reply.kind = "response" /\ reply.status >= 400

\* C1: for both endpoints, a request that fails for an upstream HTTP error, a
\* rejected login, a missing data block, malformed JSON or a missing record
\* field ends in an error response with a text body made by the handler; the
\* failure never leaves the handler as an uncaught exception.
C1_FailuresAnswered ==
  (Done /\ upstream.kind # "conn_error" /\ ~CalendarReturned) => ErrorResponse

\* C2: a request without a required query parameter is answered 400 with the
\* fixed text, and no outbound call is made for it: /calendar.ics without
\* street, /tomcal.ics without l or without p.
C2_MissingParameter ==
  /\ (IsCalendar /\ streets = <<>>) =>
       /\ Done
       /\ resp = TextResponse(<<"Missing 'street' parameter(s)">>, 400)
       /\ calls = <<>>
  /\ (IsTomcal /\ (~login.present \/ ~password.present)) =>
       /\ Done
       /\ resp = TextResponse(<<"Missing login or password">>, 400)
       /\ calls = <<>>

C2_Witness ==
  /\ IsTomcal /\ login = Given("tom") /\ password = Absent
  /\ Done /\ resp.status = 400 /\ calls = <<>>

\* C3: on /calendar.ics, a non-success HTTP status from the fetch of any street
\* gives status 500 with a text that holds the upstream status code and the
\* upstream body, and no calendar, whatever the earlier streets yielded.
C3_UpstreamError ==
  (IsCalendar /\ HttpFailed(upstream)) =>
    /\ Done
    /\ resp.kind = "response" /\ resp.status = 500
    /\ \E i \in 1..Len(resp.text) : resp.text[i] = StatusText(upstream.status)
    /\ \E i \in 1..Len(resp.text) : resp.text[i] = upstream.text
    /\ resp.mimetype # "text/calendar" /\ resp.ics = <<>>

C3_Witness ==
  /\ IsCalendar /\ HttpFailed(upstream) /\ upstream.status = 404
  /\ Len(calls) = 2 /\ all_events # <<>>
  /\ resp.status = 500

IsDayMonthYear(cell) == StrptimeDMY(Strip(cell)).ok
ValidRow(cells) ==
  Len(cells) >= 7 /\ IsDayMonthYear(cells[5]) /\ IsDayMonthYear(cells[6])
Title(cells) == Strip(cells[3]) \o <<" ", "-", " ">> \o Strip(cells[1])

TimetableFetched == IsTomcal /\ Len(calls) = 2 /\ upstream.kind = "response" /\ upstream.status < 400
NoBlock(js) == ~ReSearch(js).found
BadBlock(js) == ReSearch(js).found /\ ~JsonLoads(ReSearch(js).group).ok

\* C5: when the fetched text holds no `var timetableData = {...};` block, or the
\* matched block is not JSON, parse_timetable raises; it returns no calendar,
\* not even an empty one.
C5_NoBlockNoCalendar ==
  /\ (TimetableFetched /\ (NoBlock(html) \/ BadBlock(html))) =>
       /\ Done
       /\ resp.kind = "uncaught" /\ resp.exc \in {"ValueError", "JSONDecodeError"}
       /\ ~CalendarReturned
  /\ (TimetableFetched /\ html \in {PageNoAnchor, PageSpacedSemi}) => NoBlock(html)
  /\ (TimetableFetched /\ html \in {PageUnclosedList, PageTrailingComma, PageBraces}) =>
       BadBlock(html)

C5_Witness ==
  /\ TimetableFetched /\ html = PageNoAnchor
  /\ Done /\ resp = Uncaught("ValueError")

LacksTime(entry) ==
  entry.t = "obj" /\ (~HasKey(entry, "startTime") \/ ~HasKey(entry, "endTime"))

\* C6: when a record of the timetables list has no startTime or no endTime, at
\* any position, the request fails: the record is not skipped and no calendar
\* of the other records is returned.
C6_MissingFieldFails ==
  (TimetableFetched /\ \E i \in 1..Len(entries) : LacksTime(entries[i])) =>
    /\ ~CalendarReturned
    /\ ti <= Len(entries)
    /\ Done => resp.kind = "uncaught"

C6_Witness ==
  /\ TimetableFetched /\ Done
  /\ Len(entries) = 2 /\ ~LacksTime(entries[1]) /\ LacksTime(entries[2])
  /\ Len(cal) = 1
  /\ resp = Uncaught("KeyError")

\* a record of the data model: startTime and endTime are parsable texts, the
\* optional name, location and staffName are texts when present
ValidRecord(entry) ==
  /\ entry.t = "obj"
  /\ \A k \in {"name", "location", "staffName"} : HasKey(entry, k) => Item(entry, k).t = "str"
  /\ HasKey(entry, "startTime") /\ Item(entry, "startTime").t = "str"
  /\ HasKey(entry, "endTime") /\ Item(entry, "endTime").t = "str"
  /\ ParseIsoUtc(Item(entry, "startTime").s).ok
  /\ ParseIsoUtc(Item(entry, "endTime").s).ok

\* the timetables array of the block matched in js
Records(js) == Item(JsonLoads(ReSearch(js).group).v, "timetables").l

HoldsValidRecords(js) ==
  /\ ReSearch(js).found
  /\ JsonLoads(ReSearch(js).group).ok
  /\ HasKey(JsonLoads(ReSearch(js).group).v, "timetables")
  /\ Item(JsonLoads(ReSearch(js).group).v, "timetables").t = "list"
  /\ \A i \in 1..Len(Records(js)) : ValidRecord(Records(js)[i])

NoMarkedTable(reply) ==
  /\ reply.kind = "response" /\ reply.status = 200
  /\ \A i \in 1..Len(reply.doc) : "tableborder" \notin reply.doc[i].classes

\* C8: on /calendar.ics, a fetched page without a table of class tableborder
\* adds no event and raises nothing: the request goes on to the next street or
\* ends with status 200 and a calendar, empty when no street gave events.
C8_NoTableNoEvents ==
  (IsCalendar /\ NoMarkedTable(upstream)) =>
    /\ events = <<>>
    /\ pc \in {"fetch", "done"}
    /\ resp.kind # "uncaught" /\ resp.status < 400
    /\ Done => resp = CalendarResponse(all_events, "calendar.ics")
    /\ Len(calls) = 1 => all_events = <<>>

C8_Witness ==
  /\ IsCalendar /\ NoMarkedTable(upstream) /\ upstream.doc # <<>>
  /\ Done /\ resp = CalendarResponse(<<>>, "calendar.ics")

OffsetSecs(t) == t.sign * (t.oh * 3600 + t.om * 60)
IsUtc(r) == r.ok /\ r.v.aware /\ r.v.off = 0 /\ r.v.sec \in 0..(SecsPerDay - 1)

\* C9: a wall-clock time written with Z, with +00:00 or with no offset
\* normalizes to one and the same UTC instant, that wall-clock time; written
\* with another offset it normalizes to the UTC instant of the same moment.
C9_NormalizedToUtc ==
  pc = "iso_done" =>
    /\ IsUtc(isoOut.z) /\ IsUtc(isoOut.zero) /\ IsUtc(isoOut.naive) /\ IsUtc(isoOut.shifted)
    /\ isoOut.z = isoOut.zero
    /\ isoOut.z = isoOut.naive
    /\ isoOut.naive.v.ord = ToOrdinal(isoIn.y, isoIn.m, isoIn.d)
    /\ isoOut.naive.v.sec = isoIn.hh * 3600 + isoIn.mm * 60
    /\ (isoOut.shifted.v.ord - isoOut.naive.v.ord) * SecsPerDay
         + (isoOut.shifted.v.sec - isoOut.naive.v.sec) = 0 - OffsetSecs(isoIn)

C9_Witness ==
  /\ pc = "iso_done"
  /\ isoIn.hh = 0 /\ isoIn.sign = 1 /\ isoIn.oh = 5
  /\ isoOut.shifted.v.ord = isoOut.naive.v.ord - 1

RejectedLogins == {ScriptReply(LoginBody(AtomV("false"))), ScriptReply(Dumps(ObjV(<<>>)))}

CallFailed ==
  \/ upstream.kind = "conn_error"
  \/ HttpFailed(upstream)
  \/ IsTomcal /\ Len(calls) = 1 /\ upstream \in RejectedLogins

\* C10: no outbound call is repeated and a failed one is the last: /calendar.ics
\* makes at most one fetch per street value, in parameter order; /tomcal.ics
\* makes at most one login call and then at most one timetable fetch; after a
\* failed call the request has ended in failure and nothing further happens.
C10_NoRetry ==
  /\ IsCalendar =>
       /\ Len(calls) <= Len(streets)
       /\ \A i \in 1..Len(calls) : calls[i] = Call("GET", "suspensionresults.asp", streets[i])
  /\ IsTomcal =>
       /\ Len(calls) <= 2
       /\ Len(calls) >= 1 => calls[1].method = "POST" /\ calls[1].target = "/api/auth"
       /\ Len(calls) = 2 => calls[2] = Call("GET", "/showme/timetable", "")
  /\ CallFailed => (Done /\ ~CalendarReturned)
  /\ Done => ~ENABLED Next

C10_Witness ==
  /\ IsCalendar /\ Len(streets) = 2 /\ Len(calls) = 1
  /\ HttpFailed(upstream) /\ Done

====
